---- MODULE Spec2Model ----
(***************************************************************************)
(* Model of Image_Processing.py: an ImageProcessor holding the current     *)
(* numpy array (image_array) and a FilterHistory stack of snapshots, with  *)
(* the transformations apply_grayscale, apply_inversion, apply_filter      *)
(* (apply_blur), apply_crop, apply_rotate and the undo operation.          *)
(*                                                                         *)
(* A numpy array is modelled with its dtype.  A uint8 sample is an integer *)
(* in 0..255; a float64 sample is an IEEE-754 double, kept exactly as a    *)
(* triple (neg, m, e) meaning (-1)^neg * m * 2^e, with m an odd natural    *)
(* number written in base 2^14 (least significant limb first), or m = <<>> *)
(* for zero.  Every floating-point operation computes the exact result and *)
(* rounds it to 53 significant bits, ties to even, as the hardware does.   *)
(***************************************************************************)
EXTENDS Integers, Sequences, FiniteSets, TLC

(***************************************************************************)
(* Natural numbers of any size, base 2^14, least significant limb first,   *)
(* no leading zero limb; <<>> is zero.                                     *)
(***************************************************************************)
Base == 2 ^ 14

\* number of significant bits of a limb
RECURSIVE LimbLen(_)
LimbLen(x) == IF x = 0 THEN 0 ELSE 1 + LimbLen(x \div 2)

LimbBits == LimbLen(Base) - 1

BOfInt(n) ==
  IF n = 0 THEN << >>
  ELSE IF n < Base THEN << n >>
  ELSE IF n < Base * Base THEN << n % Base, n \div Base >>
  ELSE << n % Base, (n \div Base) % Base, n \div (Base * Base) >>

RECURSIVE BNorm(_)
BNorm(a) ==
  IF a = << >> THEN << >>
  ELSE IF a[Len(a)] = 0 THEN BNorm(SubSeq(a, 1, Len(a) - 1))
  ELSE a

RECURSIVE BAddC(_, _, _)
BAddC(a, b, c) ==
  IF a = << >> /\ b = << >> THEN (IF c = 0 THEN << >> ELSE << c >>)
  ELSE IF b = << >> /\ c = 0 THEN a
  ELSE IF a = << >> /\ c = 0 THEN b
  ELSE LET x == IF a = << >> THEN 0 ELSE a[1]
           y == IF b = << >> THEN 0 ELSE b[1]
           s == x + y + c
       IN  << s % Base >> \o
           BAddC(IF a = << >> THEN a ELSE Tail(a),
                 IF b = << >> THEN b ELSE Tail(b), s \div Base)

BAdd(a, b) == BAddC(a, b, 0)

\* a - b for a >= b
RECURSIVE BSubC(_, _, _)
BSubC(a, b, c) ==
  IF b = << >> /\ c = 0 THEN a
  ELSE LET y == IF b = << >> THEN 0 ELSE b[1]
           d == a[1] - y - c
       IN  << d % Base >> \o
           BSubC(Tail(a), IF b = << >> THEN b ELSE Tail(b),
                 IF d < 0 THEN 1 ELSE 0)

BSub(a, b) == BNorm(BSubC(a, b, 0))

\* a < b, for a and b without leading zero limb
RECURSIVE BLess(_, _)
BLess(a, b) ==
  IF Len(a) # Len(b) THEN Len(a) < Len(b)
  ELSE IF a = << >> THEN FALSE
  ELSE IF a[Len(a)] # b[Len(b)] THEN a[Len(a)] < b[Len(b)]
  ELSE BLess(SubSeq(a, 1, Len(a) - 1), SubSeq(b, 1, Len(b) - 1))

\* a * k + c for 0 <= k < Base
RECURSIVE BMulSmallC(_, _, _)
BMulSmallC(a, k, c) ==
  IF a = << >> THEN (IF c = 0 THEN << >> ELSE << c >>)
  ELSE LET p == a[1] * k + c
       IN  << p % Base >> \o BMulSmallC(Tail(a), k, p \div Base)

BMulSmall(a, k) == IF k = 0 THEN << >> ELSE BMulSmallC(a, k, 0)

BShiftLimbs(a, n) ==
  IF a = << >> THEN << >> ELSE [i \in 1..n |-> 0] \o a

RECURSIVE BMul(_, _)
BMul(a, b) ==
  IF a = << >> \/ b = << >> THEN << >>
  ELSE BAdd(BMulSmall(a, b[1]), BShiftLimbs(BMul(a, Tail(b)), 1))

BitLen(a) ==
  IF a = << >> THEN 0 ELSE LimbBits * (Len(a) - 1) + LimbLen(a[Len(a)])

\* a * 2^n
BShl(a, n) ==
  BShiftLimbs(BMulSmall(a, 2 ^ (n % LimbBits)), n \div LimbBits)

\* floor(a / 2^n)
BShr(a, n) ==
  LET q == n \div LimbBits
      r == n % LimbBits
      d == IF q >= Len(a) THEN << >> ELSE SubSeq(a, q + 1, Len(a))
      lo == 2 ^ r
      hi == 2 ^ (LimbBits - r)
  IN  IF r = 0 THEN d
      ELSE BNorm([i \in 1..Len(d) |->
                   (d[i] \div lo) +
                   (IF i < Len(d) THEN (d[i + 1] % lo) * hi ELSE 0)])

\* bit i (bit 0 is the least significant) of a
BBit(a, i) ==
  LET q == i \div LimbBits
  IN  IF q >= Len(a) THEN 0 ELSE (a[q + 1] \div (2 ^ (i % LimbBits))) % 2

\* TRUE iff some of the n low bits of a is set
BLowBits(a, n) ==
  LET q == n \div LimbBits
      r == n % LimbBits
  IN  \/ \E i \in 1..q : i <= Len(a) /\ a[i] # 0
      \/ r > 0 /\ q < Len(a) /\ a[q + 1] % (2 ^ r) # 0

\* number of trailing zero bits of a # 0
RECURSIVE LimbTz(_)
LimbTz(x) == IF x % 2 = 1 THEN 0 ELSE 1 + LimbTz(x \div 2)

BTz(a) ==
  LET i == CHOOSE k \in 1..Len(a) : a[k] # 0 /\ \A j \in 1..(k - 1) : a[j] = 0
  IN  LimbBits * (i - 1) + LimbTz(a[i])

\* floor((rem * Base^Len(a) + a) / d) for 0 <= rem < d < Base
RECURSIVE BDivSmallR(_, _, _)
BDivSmallR(a, d, rem) ==
  IF a = << >> THEN << >>
  ELSE LET n == Len(a)
           cur == rem * Base + a[n]
       IN  Append(BDivSmallR(SubSeq(a, 1, n - 1), d, cur % d), cur \div d)

BDivSmall(a, d) == BNorm(BDivSmallR(a, d, 0))

RECURSIVE BModSmallR(_, _, _)
BModSmallR(a, d, rem) ==
  IF a = << >> THEN rem
  ELSE BModSmallR(SubSeq(a, 1, Len(a) - 1), d, (rem * Base + a[Len(a)]) % d)

BModSmall(a, d) == BModSmallR(a, d, 0)

\* the value of a, for a < Base * Base
BToInt(a) ==
  IF a = << >> THEN 0
  ELSE IF Len(a) = 1 THEN a[1]
  ELSE a[1] + Base * a[2]

(***************************************************************************)
(* IEEE-754 binary64 values, finite and normal (the samples stay far from  *)
(* the overflow and underflow thresholds).  neg is the sign bit: 255 - x   *)
(* is negative for a sample x above 255, which a blur of 255.0 produces.   *)
(* The weights are positive and a difference that cancels exactly is +0.0, *)
(* so no operation yields -0.0 and equal doubles are equal triples.        *)
(***************************************************************************)
MantissaBits == 52 + 1

FZero == [neg |-> FALSE, m |-> << >>, e |-> 0]

\* the canonical triple of (-1)^neg * n * 2^e: an odd mantissa
FCanon(neg, n, e) ==
  IF n = << >> THEN [neg |-> neg, m |-> << >>, e |-> 0]
  ELSE LET tz == BTz(n) IN [neg |-> neg, m |-> BShr(n, tz), e |-> e + tz]

\* the magnitude n * 2^e (plus, when sticky, a positive amount below one
\* unit of n) rounded to MantissaBits significant bits, ties to even, with
\* the sign neg
FRound(neg, n, e, sticky) ==
  LET len == BitLen(n)
      k == len - MantissaBits
  IN  IF k <= 0 THEN FCanon(neg, n, e)
      ELSE LET q == BShr(n, k)
               half == BBit(n, k - 1) = 1
               rest == sticky \/ BLowBits(n, k - 1)
               up == half /\ (rest \/ BBit(q, 0) = 1)
           IN  FCanon(neg, IF up THEN BAdd(q, << 1 >>) ELSE q, e + k)

\* the double of an integer 0 <= v < Base * Base (exact)
FOfInt(v) == FCanon(FALSE, BOfInt(v), 0)

\* the double nearest to num / den, for 0 <= num, 0 < den < Base
GuardBits == 5 * LimbBits

FRatio(num, den) ==
  LET n == BShl(BOfInt(num), GuardBits)
  IN  FRound(FALSE, BDivSmall(n, den), 0 - GuardBits, BModSmall(n, den) # 0)

\* the exact product, sum and difference, as unrounded triples
XMul(x, y) == [neg |-> x.neg # y.neg, m |-> BMul(x.m, y.m), e |-> x.e + y.e]

\* a sum that is exactly zero is +0.0, unless both terms are -0.0
XAdd(x, y) ==
  IF x.m = << >> /\ y.m = << >> THEN [neg |-> x.neg /\ y.neg, m |-> << >>, e |-> 0]
  ELSE IF x.m = << >> THEN y
  ELSE IF y.m = << >> THEN x
  ELSE LET e == IF x.e <= y.e THEN x.e ELSE y.e
           a == BShl(x.m, x.e - e)
           b == BShl(y.m, y.e - e)
       IN  IF x.neg = y.neg THEN [neg |-> x.neg, m |-> BAdd(a, b), e |-> e]
           ELSE IF a = b THEN [neg |-> FALSE, m |-> << >>, e |-> 0]
           ELSE IF BLess(a, b) THEN [neg |-> y.neg, m |-> BSub(b, a), e |-> e]
           ELSE [neg |-> x.neg, m |-> BSub(a, b), e |-> e]

XSub(x, y) == XAdd(x, [neg |-> ~y.neg, m |-> y.m, e |-> y.e])

FOfX(x) == FRound(x.neg, x.m, x.e, FALSE)

FMul(x, y) == FOfX(XMul(x, y))

FAdd(x, y) == FOfX(XAdd(x, y))

FSub(x, y) == FOfX(XSub(x, y))

\* fused multiply-add: x * y + z with a single rounding
FFma(x, y, z) == FOfX(XAdd(XMul(x, y), z))

\* the C conversion of a double |x| < Base * Base to an integer: the
\* fraction is discarded, so the value is rounded towards zero
FTrunc(x) ==
  LET n == IF x.m = << >> THEN 0
           ELSE IF x.e >= 0 THEN BToInt(BShl(x.m, x.e))
           ELSE BToInt(BShr(x.m, 0 - x.e))
  IN  IF x.neg THEN 0 - n ELSE n

(***************************************************************************)
(* numpy arrays of shape (h, w, 3).  px[i][j][c] is the sample of row i,   *)
(* column j, channel c (numbered from 1).  Arrays are values here: the     *)
(* program never writes into an array that another name still refers to    *)
(* (every transformation builds a new array or a read-only view, and push   *)
(* stores np.copy), so sharing cannot be observed.                         *)
(***************************************************************************)
Channels == 1..3

Height(a) == Len(a.px)

Width(a) == Len(a.px[1])

\* a sample converted to float64, as numpy does before float arithmetic
AsFloat(a, v) == IF a.dtype = "uint8" THEN FOfInt(v) ELSE v

F255 == FOfInt(255)

\* line 110: the literals 0.2989, 0.5870, 0.1140 as doubles
GrayWeights == << FRatio(2989, 10000), FRatio(5870, 10000), FRatio(1140, 10000) >>

\* line 117: np.ones((3, 3)) / 9
BlurKernel == [i \in 1..3 |-> [j \in 1..3 |-> FRatio(1, 9)]]

\* a 1x1 kernel of weight 1.0
IdentityKernel == << << FOfInt(1) >> >>

\* line 110: np.dot over the last axis, one pixel.  The three products are
\* accumulated in index order; a build whose dot kernel is compiled to fused
\* multiply-add rounds once per step, another rounds product and sum.
Dot3(x, w, fma) ==
  IF fma
  THEN FFma(x[3], w[3], FFma(x[2], w[2], FMul(x[1], w[1])))
  ELSE FAdd(FAdd(FMul(x[1], w[1]), FMul(x[2], w[2])), FMul(x[3], w[3]))

\* lines 110-111: the result of apply_grayscale, a float64 array
Grayscale(a, fma) ==
  [dtype |-> "float64",
   px |-> [i \in 1..Height(a) |-> [j \in 1..Width(a) |->
            LET p == a.px[i][j]
                gray == Dot3([c \in Channels |-> AsFloat(a, p[c])], GrayWeights, fma)
            IN  [c \in Channels |-> gray]]]]

\* line 104: 255 - image_array keeps the dtype of the array
Inversion(a) ==
  [dtype |-> a.dtype,
   px |-> [i \in 1..Height(a) |-> [j \in 1..Width(a) |-> [c \in Channels |->
            IF a.dtype = "uint8" THEN (255 - a.px[i][j][c]) % 256
            ELSE FSub(F255, a.px[i][j][c])]]]]

Clamp(x, lo, hi) == IF x < lo THEN lo ELSE IF x > hi THEN hi ELSE x

\* np.sum over the window: the terms are added one after the other
RECURSIVE SumFrom(_, _, _)
SumFrom(acc, terms, k) ==
  IF k > Len(terms) THEN acc ELSE SumFrom(FAdd(acc, terms[k]), terms, k + 1)

\* lines 83-90: the convolution over an array padded by ph rows and pw
\* columns.  np.pad(mode='edge') repeats the border sample; filtered has the
\* dtype of image_array (np.zeros_like), so a uint8 array stores the sum with
\* its fraction discarded, and keeps the low 8 bits of that integer (a sum
\* below 0 wraps: -1.0 is stored as 255).
FilterPadded(a, kernel, ph, pw) ==
  LET kh == Len(kernel)
      kw == Len(kernel[1])
      h == Height(a)
      w == Width(a)
      \* region * kernel[:, :, None] uses the float value of each sample
      fl == [i \in 1..h |-> [j \in 1..w |-> [c \in Channels |->
              AsFloat(a, a.px[i][j][c])]]]
      padded(i, j, c) == fl[Clamp(i - ph, 1, h)][Clamp(j - pw, 1, w)][c]
      pixel(i, j, c) ==
        LET terms == [k \in 1..(kh * kw) |->
                       LET di == (k - 1) \div kw
                           dj == (k - 1) % kw
                       IN  FMul(padded(i + di, j + dj, c), kernel[di + 1][dj + 1])]
        IN  SumFrom(terms[1], terms, 2)
  IN  [dtype |-> a.dtype,
       px |-> [i \in 1..h |-> [j \in 1..w |-> [c \in Channels |->
                IF a.dtype = "uint8" THEN FTrunc(pixel(i, j, c)) % 256
                ELSE pixel(i, j, c)]]]]

\* faulty variant: the padding is half the kernel size rounded up
Filter_PadUp(a, kernel) ==
  FilterPadded(a, kernel, (Len(kernel) + 1) \div 2, (Len(kernel[1]) + 1) \div 2)

\* lines 80-81: ph, pw = kh // 2, kw // 2
Filter(a, kernel) ==
  FilterPadded(a, kernel, Len(kernel) \div 2, Len(kernel[1]) \div 2)

\* faulty variant: the right and bottom edges themselves are refused
InvalidCoordinates_Strict(a, left, top, right, bottom) ==
  left < 0 \/ top < 0 \/ right >= Width(a) \/ bottom >= Height(a)

\* line 126 and line 130: the two tests that reject a crop
InvalidCoordinates(a, left, top, right, bottom) ==
  left < 0 \/ top < 0 \/ right > Width(a) \/ bottom > Height(a)

InvalidRectangle(left, top, right, bottom) ==
  left >= right \/ top >= bottom

\* faulty variant: the region is taken from the origin
Crop_FromOrigin(a, left, top, right, bottom) ==
  [dtype |-> a.dtype,
   px |-> [i \in 1..(bottom - top) |-> [j \in 1..(right - left) |-> a.px[i][j]]]]

\* line 134: image_array[top:bottom, left:right]
Crop(a, left, top, right, bottom) ==
  [dtype |-> a.dtype,
   px |-> [i \in 1..(bottom - top) |-> [j \in 1..(right - left) |->
            a.px[top + i][left + j]]]]

\* line 141: Image.fromarray accepts a (h, w, 3) array only as uint8
CanRotate(a) == a.dtype = "uint8"

\* line 140: the angles entered.  PIL turns these exactly (transpose), the
\* quarter turns only when the image is square and so keeps its size.
Angles(a) ==
  IF Height(a) = Width(a) THEN {0, 90, 180, 270} ELSE {0, 180}

\* lines 141-143: PIL Image.rotate (counter-clockwise, same size)
Rotate(a, angle) ==
  LET h == Height(a)
      w == Width(a)
  IN  [dtype |-> "uint8",
       px |-> [i \in 1..h |-> [j \in 1..w |->
                CASE angle = 0 -> a.px[i][j]
                  [] angle = 90 -> a.px[j][w + 1 - i]
                  [] angle = 180 -> a.px[h + 1 - i][w + 1 - j]
                  [] angle = 270 -> a.px[h + 1 - j][i]]]]

\* FilterHistory.push (line 35) and FilterHistory.pop (lines 38-40):
\* pop yields the snapshot, or None, and the remaining list
\* faulty variant: the snapshot is put in front
push_Front(h, image) == << image >> \o h

push(h, image) == Append(h, image)

None == [dtype |-> "None"]

\* faulty variant: the snapshot is returned but stays in the list
pop_Peek(h) ==
  IF h # << >> THEN [value |-> h[Len(h)], rest |-> h] ELSE [value |-> None, rest |-> h]

pop(h) ==
  IF h # << >>
  THEN [value |-> h[Len(h)], rest |-> SubSeq(h, 1, Len(h) - 1)]
  ELSE [value |-> None, rest |-> h]

(***************************************************************************)
(* Bounds of the model.                                                    *)
(***************************************************************************)
\* transformations are applied while the history holds fewer snapshots
MaxHist == 2

\* the crop coordinates entered range over -1 .. MaxCoord
MaxCoord == 2

Coords == (0 - 1)..MaxCoord

\* the images loaded (line 54-55: an RGB image is a uint8 array)
Image(rows) == [dtype |-> "uint8", px |-> rows]

Images ==
  { Image(<< << <<255, 255, 255>>, <<0, 0, 0>> >> >>),
    Image(<< << <<1, 0, 0>>, <<200, 100, 50>> >> >>),
    Image(<< << <<5, 5, 5>> >>, << <<7, 10, 14>> >> >>),
    Image(<< << <<5, 5, 5>>, <<28, 28, 28>> >>,
             << <<0, 255, 0>>, <<90, 60, 30>> >> >>) }

(***************************************************************************)
(* The state of a session.                                                 *)
(*   image_array  ImageProcessor.image_array                               *)
(*   history      ImageProcessor.history.history, oldest snapshot first    *)
(*   op           the method the main loop called last                     *)
(*   out          what that call printed ("" when it printed nothing)      *)
(*   args         the numbers apply_crop has read and not yet acted on     *)
(*                (SpecCrop only; Spec reads and acts in one step)         *)
(*   alive        FALSE once an exception has ended the process            *)
(*   fma          whether this build's np.dot uses fused multiply-add      *)
(*   pending      for each transformation applied and not undone since,    *)
(*                the array it was applied to (kept for the properties)    *)
(*   before       the array the most recent transformation was applied to, *)
(*                undone or not; kept while the history holds a snapshot,  *)
(*                None otherwise (kept for the properties)                 *)
(***************************************************************************)
VARIABLES image_array, history, op, out, args, alive, fma, pending, before

vars == << image_array, history, op, out, args, alive, fma, pending, before >>

Init ==
  /\ image_array \in Images
  /\ history = << >>
  /\ op = "__init__"
  /\ out = ""
  /\ args = << >>
  /\ alive = TRUE
  /\ fma \in BOOLEAN
  /\ pending = << >>
  /\ before = None

\* lines 112-113, 105-106, 92-93, 135-136, 142-143: every transformation
\* pushes the current array and then installs its result
Install(name, result) ==
  /\ history' = push(history, image_array)
  /\ image_array' = result
  /\ pending' = Append(pending, image_array)
  /\ before' = image_array
  /\ op' = name
  /\ out' = ""
  /\ UNCHANGED << alive, fma >>

apply_grayscale ==
  /\ alive
  /\ Len(history) < MaxHist
  /\ Install("apply_grayscale", Grayscale(image_array, fma))
  /\ UNCHANGED args

apply_inversion ==
  /\ alive
  /\ Len(history) < MaxHist
  /\ Install("apply_inversion", Inversion(image_array))
  /\ UNCHANGED args

apply_filter(kernel) ==
  /\ alive
  /\ Len(history) < MaxHist
  /\ Install(IF kernel = BlurKernel THEN "apply_blur" ELSE "apply_filter",
             Filter(image_array, kernel))
  /\ UNCHANGED args

\* lines 116-118
apply_blur == apply_filter(BlurKernel)

\* lines 120-137; leaves args to the caller
apply_crop(left, top, right, bottom) ==
  /\ alive
  /\ IF InvalidCoordinates(image_array, left, top, right, bottom)
     THEN /\ out' = "Invalid coordinates."
          /\ op' = "apply_crop"
          /\ UNCHANGED << image_array, history, alive, fma, pending, before >>
     ELSE IF InvalidRectangle(left, top, right, bottom)
     THEN /\ out' = "Invalid rectangle."
          /\ op' = "apply_crop"
          /\ UNCHANGED << image_array, history, alive, fma, pending, before >>
     ELSE /\ Len(history) < MaxHist
          /\ Install("apply_crop", Crop(image_array, left, top, right, bottom))

\* lines 139-144: Image.fromarray raises TypeError for a float64 array, and
\* main has no handler: the process ends with the state as it was
apply_rotate(angle) ==
  /\ alive
  /\ IF CanRotate(image_array)
     THEN /\ Len(history) < MaxHist
          /\ Install("apply_rotate", Rotate(image_array, angle))
     ELSE /\ alive' = FALSE
          /\ op' = "apply_rotate"
          /\ out' = "TypeError"
          /\ UNCHANGED << image_array, history, fma, pending, before >>
  /\ UNCHANGED args

\* faulty variant: pop without the emptiness test: list.pop raises IndexError
undo_Raises ==
  /\ alive
  /\ IF history # << >>
     THEN /\ image_array' = history[Len(history)]
          /\ history' = SubSeq(history, 1, Len(history) - 1)
          /\ out' = "Undo successful."
          /\ pending' = SubSeq(pending, 1, Len(pending) - 1)
          /\ UNCHANGED alive
     ELSE /\ alive' = FALSE
          /\ out' = "IndexError"
          /\ UNCHANGED << image_array, history, pending >>
  /\ op' = "undo"
  /\ before' = IF history' = << >> THEN None ELSE before
  /\ UNCHANGED << args, fma >>

\* lines 146-152
undo ==
  /\ alive
  /\ LET prev == pop(history).value
     IN  IF prev # None
         THEN /\ image_array' = prev
              /\ out' = "Undo successful."
              /\ pending' = SubSeq(pending, 1, Len(pending) - 1)
         ELSE /\ out' = "Nothing to undo."
              /\ UNCHANGED << image_array, pending >>
  /\ history' = pop(history).rest
  /\ op' = "undo"
  /\ before' = IF pop(history).rest = << >> THEN None ELSE before
  /\ UNCHANGED << args, alive, fma >>

Next ==
  \/ apply_grayscale
  \/ apply_inversion
  \/ apply_blur
  \/ apply_filter(IdentityKernel)
  \/ \E l, t, r, b \in Coords : apply_crop(l, t, r, b) /\ UNCHANGED args
  \/ \E angle \in Angles(image_array) : apply_rotate(angle)
  \/ undo

Spec == Init /\ [][Next]_vars

\* the same session with apply_crop in two steps: lines 121-124 read the
\* four numbers, lines 126-137 act on them
read_crop ==
  /\ alive
  /\ args = << >>
  /\ \E l, t, r, b \in Coords : args' = << l, t, r, b >>
  /\ UNCHANGED << image_array, history, op, out, alive, fma, pending, before >>

run_crop ==
  /\ args # << >>
  /\ apply_crop(args[1], args[2], args[3], args[4])
  /\ args' = << >>

NextCrop ==
  \/ read_crop
  \/ run_crop
  \/ args = << >> /\ apply_grayscale
  \/ args = << >> /\ apply_inversion
  \/ args = << >> /\ apply_blur
  \/ args = << >> /\ apply_filter(IdentityKernel)
  \/ args = << >> /\ \E angle \in Angles(image_array) : apply_rotate(angle)
  \/ args = << >> /\ undo

SpecCrop == Init /\ [][NextCrop]_vars

(***************************************************************************)
(* Properties.                                                             *)
(***************************************************************************)
Transforms ==
  { "apply_grayscale", "apply_inversion", "apply_blur", "apply_filter",
    "apply_crop", "apply_rotate" }

\* the last call was a transformation that went through
Transformed == op \in Transforms /\ out = ""

Top(s) == s[Len(s)]

\* equality of arrays (samples of different dtypes are not compared)
Same(a, b) == a.dtype = b.dtype /\ a = b

IsUint8(a) ==
  /\ a.dtype = "uint8"
  /\ \A i \in 1..Height(a) : \A j \in 1..Width(a) : \A c \in Channels :
       a.px[i][j][c] \in 0..255

\* what a crop prints when it rejects its region
CropErrors == { "Invalid coordinates.", "Invalid rectangle." }

\* C1: for every transformation T (grayscale, inversion, blur, crop with a
\* valid region, rotate) and every current buffer B, T is applied, undo can
\* be called after it, and that undo makes B the current buffer again: same
\* samples, same height and width.
C1_UndoRestores ==
  [][/\ (op' \in Transforms /\ out' \notin CropErrors) => alive'
     /\ (op \in Transforms /\ out \notin CropErrors /\ op' = "undo")
          => Same(image_array', Top(pending))]_vars

\* C2: the history holds one snapshot per transformation applied and not
\* undone: N after N transformations without undo, N-1 after one undo.
C2_HistoryDepth == Len(history) = Len(pending)

C2_Witness == Transformed /\ Len(pending) = MaxHist /\ Len(history) = MaxHist

\* C3: a crop is rejected exactly when left<0 or top<0 or right>width or
\* bottom>height or left>=right or top>=bottom, and a rejected crop leaves the
\* current buffer and the history as they were.
C3_CropRejected ==
  [][(args # << >> /\ args' = << >>) =>
       LET left == args[1]
           top == args[2]
           right == args[3]
           bottom == args[4]
           fails == \/ left < 0
                    \/ top < 0
                    \/ right > Width(image_array)
                    \/ bottom > Height(image_array)
                    \/ left >= right
                    \/ top >= bottom
       IN  /\ (out' # "") <=> fails
           /\ fails => /\ Same(image_array', image_array)
                       /\ history' = history
                       /\ alive']_vars

\* a crop within the buffer but with left >= right or top >= bottom was
\* rejected while the history was not empty
C3_Witness ==
  /\ op = "apply_crop"
  /\ out = "Invalid rectangle."
  /\ args = << >>
  /\ history # << >>

\* C4: undo with an empty history changes neither the current buffer nor the
\* history, reports "Nothing to undo." and the session goes on.
C4_EmptyUndo ==
  [][(history = << >> /\ op' = "undo") =>
       /\ Same(image_array', image_array)
       /\ history' = << >>
       /\ pending' = pending
       /\ out' = "Nothing to undo."
       /\ alive']_vars

\* an undo was called on an empty history and the session is still alive
C4_Witness == op = "undo" /\ out = "Nothing to undo." /\ history = << >> /\ alive

\* C5: grayscale applied to the result of grayscale gives that result again.
C5_GrayscaleIdempotent ==
  [][(Transformed /\ op = "apply_grayscale" /\ op' = "apply_grayscale")
       => Same(image_array', image_array)]_vars

\* C6: inverting the current buffer twice gives the current buffer back.
C6_InversionSelfInverse == Same(Inversion(Inversion(image_array)), image_array)

\* C7: a crop with 0<=left<right<=W and 0<=top<bottom<=H goes through and
\* the new buffer is rows top..bottom-1 and columns left..right-1 of the old
\* one; the crop (0, 0, W, H) gives the old buffer.
C7_CropRegion ==
  [][(args # << >> /\ args' = << >>) =>
       LET left == args[1]
           top == args[2]
           right == args[3]
           bottom == args[4]
           W == Width(image_array)
           H == Height(image_array)
       IN  (0 <= left /\ left < right /\ right <= W /\
            0 <= top /\ top < bottom /\ bottom <= H) =>
             /\ out' = ""
             /\ image_array'.dtype = image_array.dtype
             /\ Height(image_array') = bottom - top
             /\ Width(image_array') = right - left
             /\ \A i \in 0..(bottom - top - 1) : \A j \in 0..(right - left - 1) :
                  image_array'.px[i + 1][j + 1] = image_array.px[top + i + 1][left + j + 1]
             /\ (left = 0 /\ top = 0 /\ right = W /\ bottom = H)
                  => Same(image_array', image_array)]_vars

\* the crop (1, 1, 2, 2) cut a 2x2 buffer down to its last pixel
C7_Witness ==
  /\ Transformed
  /\ op = "apply_crop"
  /\ args = << >>
  /\ Height(image_array) = 1
  /\ Width(image_array) = 1
  /\ Height(Top(history)) = 2
  /\ Width(Top(history)) = 2
  /\ image_array.px[1][1] = Top(history).px[2][2]
  /\ image_array.px[1][1] # Top(history).px[1][1]

\* C8: apply_filter with the 1x1 kernel of weight 1 leaves every sample and
\* the dimensions of the buffer as they were.
C8_IdentityKernel ==
  [][op' = "apply_filter" => Same(image_array', image_array)]_vars

\* the 1x1 kernel was applied to a float64 buffer with a non-zero sample
C8_Witness ==
  /\ Transformed
  /\ op = "apply_filter"
  /\ image_array.dtype = "float64"
  /\ image_array.px[1][1][1] # FZero

\* C9: every sample of the current buffer and of every snapshot is an
\* integer in 0..255.
C9_SamplesAreBytes ==
  /\ IsUint8(image_array)
  /\ \A k \in 1..Len(history) : IsUint8(history[k])

\* C10 as stated: when the history is not empty, its top snapshot is the
\* buffer to which the most recent transformation was applied.
C10_TopIsLastPreImage ==
  history # << >> => (before # None /\ Same(Top(history), before))

\* C10: when the history is not empty, its top snapshot is the buffer to
\* which the most recent transformation not yet undone was applied.
C10_TopIsPreImage ==
  history # << >> => (pending # << >> /\ Same(Top(history), Top(pending)))

\* two transformations, the second undone: the top snapshot is the loaded
\* image, to which the first was applied, and not the buffer to which the
\* second was applied
C10_Witness ==
  /\ op = "undo"
  /\ out = "Undo successful."
  /\ Len(history) = 1
  /\ Same(history[1], Top(pending))
  /\ IsUint8(history[1])
  /\ before.dtype = "uint8"
  /\ before # history[1]

====
